---- MODULE Spec2Model ----
(***************************************************************************)
(* Vedic zodiac wheel (simplyprash/VA): the longitude arithmetic, the two  *)
(* ascendant solvers and the Wheel render that feeds the sign lookups.     *)
(*                                                                         *)
(* Two variants of the component are modelled:                             *)
(*   "closed"  src/unnamed/part_001 (JS v2.3): computeAscendantDeg, a      *)
(*             closed formula, and equal houses;                           *)
(*   "scan"    src/src/VedicZodiacWheel.jsx (v2.4): ascendantLongitude, a  *)
(*             coarse scan plus grid refinement over Astronomy.Horizon.    *)
(*                                                                         *)
(* Numbers.  A JavaScript number is a record [k, v]:                       *)
(*   k = "fin"   the finite double v / UPD degrees (v an integer; the      *)
(*               arithmetic on these is exact, rounding is not modelled);  *)
(*   k = "tiny"  a nonzero double of magnitude below 2^-45 (half an ulp of *)
(*               360), of sign v (-1 or 1), such as -1e-20;                *)
(*   k = "nan"   NaN (the infinities behave like NaN in every guard the    *)
(*               code applies and are not told apart).                     *)
(***************************************************************************)
EXTENDS Integers, Sequences, FiniteSets, TLC

\* Units per degree: arc-minutes (60) times 5, so that the refinement
\* step of 0.04 degrees (12 units) and one arc-minute (5 units) are exact.
UPD == 60 * 5

Deg(d) == d * UPD
C360 == Deg(360)

Fin(n) == [k |-> "fin", v |-> n]
NaN == [k |-> "nan", v |-> 0]
NegTiny == [k |-> "tiny", v |-> -1]
PosTiny == [k |-> "tiny", v |-> 1]

IsFin(x) == x.k = "fin"
\* Number.isFinite / isFinite on a number
isFinite(x) == x.k # "nan"

Abs(n) == IF n < 0 THEN -n ELSE n
Sgn(n) == IF n < 0 THEN -1 ELSE IF n > 0 THEN 1 ELSE 0

\* JavaScript a % m on integers (m > 0): the sign follows the dividend.
JsRem(a, m) == Sgn(a) * (Abs(a) % m)

(***************************************************************************)
(* norm360                                                                 *)
(***************************************************************************)

\* d % 360: exact (fmod); a tiny value is its own remainder; NaN stays NaN.
Mod360(d) ==
  CASE d.k = "fin" -> Fin(JsRem(d.v, C360))
    [] d.k = "tiny" -> d
    [] OTHER -> NaN

\* x < 0
IsNeg(x) ==
  CASE x.k = "fin" -> x.v < 0
    [] x.k = "tiny" -> x.v < 0
    [] OTHER -> FALSE

\* x + 360 for -360 < x < 0.  A tiny negative x is below half an ulp of
\* 360, so the IEEE sum rounds to 360 itself.
Plus360(x) ==
  CASE x.k = "fin" -> Fin(x.v + C360)
    [] x.k = "tiny" -> Fin(C360)
    [] OTHER -> NaN

\* function norm360(d) { let x = d % 360; if (x < 0) x += 360; return x; }
norm360(d) ==
  LET x == Mod360(d)
  IN IF IsNeg(x) THEN Plus360(x) ELSE x

\* a - b and a + b on the numbers the sidereal conversion sees
Sub(a, b) ==
  CASE a.k = "fin" /\ b.k = "fin" -> Fin(a.v - b.v)
    [] a.k = "nan" \/ b.k = "nan" -> NaN
    [] a.k = "tiny" /\ b.k = "fin" -> IF b.v = 0 THEN a ELSE Fin(-b.v)
    [] a.k = "fin" /\ b.k = "tiny" ->
         IF a.v = 0 THEN [k |-> "tiny", v |-> -b.v] ELSE a
    [] OTHER -> IF a.v = b.v THEN Fin(0) ELSE a

Add(a, b) == Sub(a, [k |-> b.k, v |-> -b.v])

\* x in [0, 360)
InCircle(x) ==
  CASE x.k = "fin" -> 0 <= x.v /\ x.v < C360
    [] x.k = "tiny" -> x.v > 0
    [] OTHER -> FALSE

(***************************************************************************)
(* zodiacBreakdown                                                         *)
(***************************************************************************)

NumSigns == 12

\* zodiacBreakdown(longitudeDeg): SIGNS[signIndex].name throws a TypeError
\* when signIndex is not an index of SIGNS (12, or NaN).
zodiacBreakdown(longitudeDeg) ==
  LET lon == norm360(longitudeDeg)
  IN CASE lon.k = "nan" ->
            [thrown |-> TRUE, signIndex |-> 0, deg |-> 0, min |-> 0, raw |-> lon]
       [] lon.k = "tiny" ->
            [thrown |-> FALSE, signIndex |-> 0, deg |-> 0, min |-> 0, raw |-> lon]
       [] OTHER ->
            LET signIndex == lon.v \div Deg(30)
                inSign == JsRem(lon.v, Deg(30))
                d == inSign \div UPD
                m == ((inSign - d * UPD) * 60) \div UPD
            IN IF signIndex \in 0 .. NumSigns - 1
               THEN [thrown |-> FALSE, signIndex |-> signIndex,
                     deg |-> d, min |-> m, raw |-> lon]
               ELSE [thrown |-> TRUE, signIndex |-> signIndex,
                     deg |-> d, min |-> m, raw |-> lon]

siderealLongitude_Plus(elon, ayanamshaDeg) == norm360(Add(elon, ayanamshaDeg))

\* ayanamshaDeg || 24.1: a zero ayanamsha taken for a missing one
siderealLongitude_OrDefault(elon, ayanamshaDeg) ==
  IF ayanamshaDeg = Fin(0) THEN norm360(Sub(elon, Fin(7230)))
  ELSE norm360(Sub(elon, ayanamshaDeg))

\* Wheel: lon = useSidereal ? norm360(p.elon - ayanamshaDeg) : p.elon
siderealLongitude(elon, ayanamshaDeg) == norm360(Sub(elon, ayanamshaDeg))

(***************************************************************************)
(* Trigonometry in fixed point.  Math.sin, Math.cos, Math.tan, Math.atan2  *)
(* are evaluated from a table of sin at whole degrees (scaled by           *)
(* TrigScale, linear in between); atan2 is rounded to the nearest degree.  *)
(***************************************************************************)

TrigScale == 10 * 1000

SinTab ==
  << 0, 175, 349, 523, 698, 872, 1045, 1219, 1392, 1564, 1736, 1908, 2079,
     2250, 2419, 2588, 2756, 2924, 3090, 3256, 3420, 3584, 3746, 3907, 4067, 4226,
     4384, 4540, 4695, 4848, 5000, 5150, 5299, 5446, 5592, 5736, 5878, 6018, 6157,
     6293, 6428, 6561, 6691, 6820, 6947, 7071, 7193, 7314, 7431, 7547, 7660, 7771,
     7880, 7986, 8090, 8192, 8290, 8387, 8480, 8572, 8660, 8746, 8829, 8910, 8988,
     9063, 9135, 9205, 9272, 9336, 9397, 9455, 9511, 9563, 9613, 9659, 9703, 9744,
     9781, 9816, 9848, 9877, 9903, 9925, 9945, 9962, 9976, 9986, 9994, 9998, 10000 >>

\* sin of a whole number of degrees
SinDeg(d) ==
  LET m == d % 360
  IN IF m <= 90 THEN SinTab[m + 1]
     ELSE IF m <= 180 THEN SinTab[180 - m + 1]
     ELSE IF m <= 270 THEN -SinTab[m - 180 + 1]
     ELSE -SinTab[360 - m + 1]

CosDeg(d) == SinDeg(d + 90)

\* sin and cos of a / s degrees
SinS(a, s) ==
  LET d == a \div s
      r == a - d * s
  IN SinDeg(d) + ((SinDeg(d + 1) - SinDeg(d)) * r) \div s

CosS(a, s) ==
  LET d == a \div s
      r == a - d * s
  IN CosDeg(d) + ((CosDeg(d + 1) - CosDeg(d)) * r) \div s

\* p / q truncated toward zero (q > 0)
DivT(p, q) == Sgn(p) * (Abs(p) \div q)

\* Math.tan(Math.PI / 2) is the finite double 1.633e16: a large number here.
TanPole == 1000 * 1000 * 1000

\* tan of a / s degrees, scaled by TrigScale
TanS(a, s) ==
  LET sn == SinS(a, s)
      cs == CosS(a, s)
  IN IF cs = 0 THEN Sgn(sn) * TanPole
     ELSE Sgn(cs) * DivT(sn * TrigScale, Abs(cs))

\* (p * q) / TrigScale without leaving 32 bits when p is large
MulS(p, q) ==
  IF Abs(p) >= 10 * TrigScale THEN DivT(p, TrigScale) * q
  ELSE DivT(p * q, TrigScale)

Max(a, b) == IF a >= b THEN a ELSE b

\* the candidate direction a (whole degrees) nearest to (x, y): the one in
\* the half plane of (x, y) with the smallest cross product
NearestDir(cands, x, y) ==
  LET miss(a) == IF x * CosDeg(a) + y * SinDeg(a) > 0
                 THEN Abs(x * SinDeg(a) - y * CosDeg(a))
                 ELSE TanPole
  IN CHOOSE a \in cands : \A b \in cands : miss(a) <= miss(b)

\* Math.atan2(y, x) * 180 / Math.PI, to the nearest degree, in -179 .. 180
Atan2Deg(y, x) ==
  IF x = 0 /\ y = 0 THEN 0
  ELSE LET k == Max(Abs(x), Abs(y)) \div TrigScale + 1
           xs == DivT(x, k)
           ys == DivT(y, k)
           c == NearestDir({15 * i : i \in -11 .. 12}, xs, ys)
           a == NearestDir(c - 14 .. c + 14, xs, ys)
       IN IF a > 180 THEN a - 360 ELSE IF a <= -180 THEN a + 360 ELSE a

(***************************************************************************)
(* The closed-form ascendant (variant "closed")                            *)
(*                                                                         *)
(* Latitude, longitude, sidereal time (hours) and every longitude are      *)
(* numbers in units of 1 / UPD; the obliquity is a number in units of      *)
(* 1 / EpsScale degrees, so that the default 23.4392911 is exact.          *)
(* Astronomy.SiderealTime and Astronomy.EarthTilt belong to the            *)
(* astronomy-engine library: their results are inputs of the model.        *)
(***************************************************************************)

EpsScale == 10 * 1000 * 1000

\* 23.4392911 degrees, the "safe default" obliquity
EpsDefault == 234392911

\* Number.isFinite(+v) ? +v : 0
finiteOr0(v) == IF isFinite(v) THEN v ELSE Fin(0)

\* The result of Astronomy.EarthTilt(date): the call throws, returns a
\* falsy value, or returns an object; a field that is absent or not a
\* finite number is NaN here.
NoTilt == [outcome |-> "null", obliq |-> NaN, obl |-> NaN, eps |-> NaN]

\* const tilt = Astronomy.EarthTilt(date) || {};  epsDeg = first finite of
\* tilt.obliq, tilt.obl, tilt.eps, else 23.4392911
epsDegOf(tilt) ==
  LET t == IF tilt.outcome = "obj" THEN tilt ELSE NoTilt
  IN IF isFinite(t.obliq) THEN t.obliq
     ELSE IF isFinite(t.obl) THEN t.obl
     ELSE IF isFinite(t.eps) THEN t.eps
     ELSE Fin(EpsDefault)

\* lstRadians, in degrees: sth * 15 + (Number(longitudeDeg) || 0), then
\* ((lstDeg % 360) + 360) % 360
lstRadians(sth, longitudeDeg) ==
  LET l == IF longitudeDeg.k = "fin" THEN longitudeDeg ELSE Fin(0)
  IN IF sth.k # "fin" THEN NaN
     ELSE Fin(JsRem(JsRem(sth.v * 15 + l.v, C360) + C360, C360))

\* atan2(sin th * cos eps + tan phi * sin eps, cos th) * 180 / PI
ascLambda_Swapped(theta, phi, eps) ==
  IF theta.k # "fin" THEN NaN
  ELSE LET y == MulS(SinS(theta.v, UPD), CosS(eps.v, EpsScale))
                + MulS(TanS(phi.v, UPD), SinS(eps.v, EpsScale))
           x == CosS(theta.v, UPD)
       IN Fin(Deg(Atan2Deg(x, y)))

ascLambda(theta, phi, eps) ==
  IF theta.k # "fin" THEN NaN
  ELSE LET y == MulS(SinS(theta.v, UPD), CosS(eps.v, EpsScale))
                + MulS(TanS(phi.v, UPD), SinS(eps.v, EpsScale))
           x == CosS(theta.v, UPD)
       IN Fin(Deg(Atan2Deg(y, x)))

ascWrap_NoWrap(lambda) == IF isFinite(lambda) THEN lambda ELSE Fin(0)

\* if (!isFinite(lambda)) lambda = 0;  return (lambda + 360) % 360;
ascWrap(lambda) ==
  LET g == IF isFinite(lambda) THEN lambda ELSE Fin(0)
  IN Fin(JsRem(g.v + C360, C360))

NoAsc ==
  [thrown |-> FALSE, asc |-> NaN, latUsed |-> NaN, epsUsed |-> NaN,
   theta |-> NaN, lambda |-> NaN, found |-> FALSE, bestLam |-> 0]

\* computeAscendantDeg(date, latitudeDeg, longitudeDeg); an exception of
\* Astronomy.EarthTilt propagates (the function has no try / catch)
computeAscendantDeg(sth, tilt, latitudeDeg, longitudeDeg) ==
  LET lat0 == finiteOr0(latitudeDeg)
      lon0 == finiteOr0(longitudeDeg)
      epsDeg == epsDegOf(tilt)
      theta == lstRadians(sth, lon0)
      lambda == ascLambda(theta, lat0, epsDeg)
  IN IF tilt.outcome = "throws"
     THEN [NoAsc EXCEPT !.thrown = TRUE]
     ELSE [NoAsc EXCEPT !.asc = ascWrap(lambda), !.latUsed = lat0,
                        !.epsUsed = epsDeg, !.theta = theta, !.lambda = lambda]

\* equalHouseCusps(ascDeg): (base + 30 * i) % 360 for i = 0 .. 11
equalHouseCusps(ascDeg) ==
  LET base == finiteOr0(ascDeg)
  IN [i \in 0 .. NumSigns - 1 |->
        IF base.k = "fin" THEN Fin(JsRem(base.v + Deg(30) * i, C360))
        ELSE IF i = 0 THEN base ELSE Fin(Deg(30) * i)]

(***************************************************************************)
(* The scanning ascendant (variant "scan")                                 *)
(*                                                                         *)
(* Astronomy.Horizon belongs to the library.  Its altitude and azimuth at  *)
(* the ecliptic longitude x are read from sky, an input of the model: one  *)
(* response dflt for every longitude, except at the longitudes o1.pos and  *)
(* o2.pos.  Altitudes and azimuths are numbers in units of 1 / UPD.        *)
(* The loops x += step run on the exact grid (step 1, 0.2, 0.04 degrees).  *)
(***************************************************************************)

\* bestScore = 1e9, bestAzErr = 1e9, localScore = 1e9: above every score
InitScore == 1000 * 1000 * 1000

\* 0.01 degrees
CentiDeg == UPD \div 100

CoarseStep == Deg(5)

\* Astronomy.Horizon(date, observer, ra, dec, 'normal') at longitude x
Horizon(sky, x) ==
  IF x = sky.o1.pos THEN [alt |-> sky.o1.alt, az |-> sky.o1.az]
  ELSE IF x = sky.o2.pos THEN [alt |-> sky.o2.alt, az |-> sky.o2.az]
  ELSE sky.dflt

\* h.az > 45 && h.az < 135
inEastSector(h) == h.az.k = "fin" /\ h.az.v > Deg(45) /\ h.az.v < Deg(135)

\* Math.abs((h.az || 0) - 90)
azErrOf(h) == IF h.az.k = "fin" THEN Abs(h.az.v - Deg(90)) ELSE Deg(90)

coarseAccepts_AnyAzimuth(h, best) ==
  /\ h.alt.k = "fin"
  /\ \/ Abs(h.alt.v) < best.score
     \/ Abs(Abs(h.alt.v) - best.score) < CentiDeg /\ azErrOf(h) < best.azErr

\* the condition of the coarse loop's if
coarseAccepts(h, best) ==
  /\ inEastSector(h)
  /\ h.alt.k = "fin"
  /\ \/ Abs(h.alt.v) < best.score
     \/ Abs(Abs(h.alt.v) - best.score) < CentiDeg /\ azErrOf(h) < best.azErr

NoBest == [score |-> InitScore, azErr |-> InitScore, lam |-> 0, found |-> FALSE]

\* the body of the coarse loop at longitude lam
coarseUpdate(sky, lam, best) ==
  LET h == Horizon(sky, lam)
  IN IF coarseAccepts(h, best)
     THEN [score |-> Abs(h.alt.v), azErr |-> azErrOf(h), lam |-> lam, found |-> TRUE]
     ELSE best

RECURSIVE coarseScan(_, _, _, _)
\* for (let lam = 0; lam < 360; lam += 5) { ... }: the iterations a .. b
\* (lam = 5 a, ..., 5 b) in order, entered with best.  The range is run as
\* its first half and then its second half, and the guard reads best (whose
\* lam never reaches 360), so that TLC evaluates the updates one after the
\* other instead of nesting 72 deferred ones.
coarseScan(sky, a, b, best) ==
  IF a >= b \/ best.lam >= C360 THEN coarseUpdate(sky, CoarseStep * a, best)
  ELSE coarseScan(sky, (a + b) \div 2 + 1, b,
                  coarseScan(sky, a, (a + b) \div 2, best))

\* 100 * (Math.abs(h.alt) + 0.01 * Math.abs((h.az || 0) - 90)); InitScore
\* stands for NaN, which never compares below localScore
refineScore(h) ==
  IF h.alt.k # "fin" THEN InitScore
  ELSE 100 * Abs(h.alt.v) + azErrOf(h)

\* one pass of the refinement: for (let x = lam - 5; x <= lam + 5; x += step),
\* keeping the first x of least score.  (lam is never negative; reading it
\* first makes TLC evaluate the passes one after the other.)
refinePass(sky, lam, step) ==
  LET n == Deg(10) \div step
      xAt(i) == norm360(Fin(lam - Deg(5) + i * step)).v
      scoreAt(i) == refineScore(Horizon(sky, xAt(i)))
      scores == {scoreAt(i) : i \in 0 .. n}
      least == CHOOSE m \in scores : \A k \in scores : m <= k
  IN IF lam < 0 \/ least >= InitScore THEN lam
     ELSE xAt(CHOOSE i \in 0 .. n :
                /\ scoreAt(i) = least
                /\ \A j \in 0 .. i - 1 : scoreAt(j) # least)

\* ascendantLongitude(date, obs), with eps = Astronomy.Tilt(date).eps read
\* at render: a throwing or null Tilt ends the render
ascendantLongitude(tilt, sky, latitudeDeg) ==
  LET best == coarseScan(sky, 0, C360 \div CoarseStep - 1, NoBest)
      lam1 == refinePass(sky, best.lam, Deg(1))
      lam2 == refinePass(sky, lam1, Deg(1) \div 5)
      lam3 == refinePass(sky, lam2, Deg(1) \div 25)
  IN IF tilt.outcome # "obj"
     THEN [NoAsc EXCEPT !.thrown = TRUE]
     ELSE [NoAsc EXCEPT !.asc = norm360(Fin(lam3)), !.latUsed = latitudeDeg,
                        !.epsUsed = tilt.eps, !.found = best.found,
                        !.bestLam = best.lam]

(***************************************************************************)
(* The Wheel render of variant "closed": planets, points, ascendant,       *)
(* equal houses and the table rows' sign and nakshatra lookups.            *)
(* Astronomy.GeoVector / Astronomy.Ecliptic belong to the library: ephem   *)
(* holds the ecliptic longitude ecl.elon of every body and the value omega *)
(* of the node polynomial at the date.                                     *)
(***************************************************************************)

NumNakshatras == 27

\* NAK_SIZE = 360 / 27 and PADA_SIZE = NAK_SIZE / 4, in units
NAK_SIZE == C360 \div NumNakshatras
PADA_SIZE == NAK_SIZE \div 4

\* within / PADA_SIZE falls just below a whole number.  NAK_SIZE and
\* PADA_SIZE are the doubles next above 40/3 and 10/3; at a whole number of
\* degrees lon is exact, so when idx * NAK_SIZE is not a whole number of
\* degrees (idx not a multiple of 3) the difference lon - idx * NAK_SIZE
\* falls below the pada boundary it stands on and the quotient below the
\* whole number.
padaQuotientRoundsDown(lon, idx, within) ==
  /\ lon % Deg(1) = 0
  /\ idx % 3 # 0
  /\ within > 0 /\ within % PADA_SIZE = 0

\* nakshatraOf(siderealLon): NAKSHATRAS[idx].en throws a TypeError when idx
\* is not an index of NAKSHATRAS (27, or NaN)
nakshatraOf(siderealLon) ==
  LET lon == norm360(siderealLon)
  IN CASE lon.k = "nan" -> [thrown |-> TRUE, index |-> 0, pada |-> 0]
       [] lon.k = "tiny" -> [thrown |-> FALSE, index |-> 0, pada |-> 1]
       [] OTHER ->
            LET idx == lon.v \div NAK_SIZE
                within == lon.v - idx * NAK_SIZE
                pada == IF padaQuotientRoundsDown(lon.v, idx, within)
                         THEN within \div PADA_SIZE
                         ELSE within \div PADA_SIZE + 1
            IN [thrown |-> idx \notin 0 .. NumNakshatras - 1,
                index |-> idx, pada |-> pada]

BODIES ==
  << [key |-> "Sun", optional |-> FALSE], [key |-> "Moon", optional |-> FALSE],
     [key |-> "Mercury", optional |-> FALSE], [key |-> "Venus", optional |-> FALSE],
     [key |-> "Mars", optional |-> FALSE], [key |-> "Jupiter", optional |-> FALSE],
     [key |-> "Saturn", optional |-> FALSE], [key |-> "Uranus", optional |-> TRUE],
     [key |-> "Neptune", optional |-> TRUE], [key |-> "Pluto", optional |-> TRUE] >>

\* meanLunarNodeLongitude(date): norm360 of the polynomial's value omega
meanLunarNodeLongitude(omega) == norm360(omega)

\* usePlanetLongitudes(date, useMeanNode): the bodies, then Rahu and Ketu
usePlanetLongitudes(ephem) ==
  LET rahu == meanLunarNodeLongitude(ephem.omega)
      ketu == norm360(Add(rahu, Fin(Deg(180))))
  IN [i \in 1 .. Len(BODIES) |->
        [key |-> BODIES[i].key, elon |-> norm360(ephem.elon[i]),
         optional |-> BODIES[i].optional, isNode |-> FALSE]]
     \o << [key |-> "Rahu", elon |-> rahu, optional |-> FALSE, isNode |-> TRUE],
           [key |-> "Ketu", elon |-> ketu, optional |-> FALSE, isNode |-> TRUE] >>

\* a table row that takes the plotted longitude for the nakshatra
sidLonOf_Plotted(p, ayanamshaDeg) == p.lon

\* table row: const sidLon = norm360(p.elon - ayanamshaDeg)
sidLonOf(p, ayanamshaDeg) == norm360(Sub(p.elon, ayanamshaDeg))

\* One render of Wheel: points, ascTropical, ascToUse, houseCusps and, per
\* table row, the longitudes handed to zodiacBreakdown and to nakshatraOf.
\* An exception of computeAscendantDeg or of a lookup ends the render.
Wheel(ephem, ayanamshaDeg, useSid, showOuter, sth, tilt, latitudeDeg, longitudeDeg) ==
  LET planets == usePlanetLongitudes(ephem)
      filtered == SelectSeq(planets, LAMBDA p : showOuter \/ ~p.optional)
      points ==
        [i \in 1 .. Len(filtered) |->
           [key |-> filtered[i].key, elon |-> filtered[i].elon,
            lon |-> IF useSid
                    THEN siderealLongitude(filtered[i].elon, ayanamshaDeg)
                    ELSE filtered[i].elon]]
      ascTropical == computeAscendantDeg(sth, tilt, latitudeDeg, longitudeDeg)
      ascToUse == IF useSid THEN norm360(Sub(ascTropical.asc, ayanamshaDeg))
                  ELSE ascTropical.asc
      sidLon == [i \in 1 .. Len(points) |-> sidLonOf(points[i], ayanamshaDeg)]
  IN [points |-> points,
      ascTropical |-> ascTropical.asc,
      ascToUse |-> ascToUse,
      houseCusps |-> equalHouseCusps(ascToUse),
      zLon |-> [i \in 1 .. Len(points) |-> points[i].lon],
      nLon |-> sidLon,
      thrown |-> \/ ascTropical.thrown
                 \/ \E i \in 1 .. Len(points) :
                      \/ zodiacBreakdown(points[i].lon).thrown
                      \/ nakshatraOf(sidLon[i]).thrown]

(***************************************************************************)
(* Inputs of the longitude arithmetic                                      *)
(***************************************************************************)

\* Whole turns of 360 degrees on either side of the circle that are tried.
MaxTurns == 2

DegSamples ==
  {t * 360 + d : t \in -MaxTurns .. MaxTurns, d \in {0, 1, 20, 29, 30, 45, 359}}

\* fractions of a degree, in units: 0, one unit, 1', 30', 59', 0.99 degree,
\* the last unit
FracSamples == {0, 1, 5, 150, 295, 297, 299}

LonSamples ==
  {Fin(Deg(d) + f) : d \in DegSamples, f \in FracSamples} \cup {NegTiny, PosTiny, NaN}

\* tropical longitudes as the ephemeris hands them on: norm360(ecl.elon)
ElonSamples == {Fin(Deg(d) + f) : d \in {0, 1, 24, 29, 30, 45, 359}, f \in FracSamples}

\* ayanamsha presets 24.10, 22.50, 23.86, 24.42 and free numeric input
AyanamshaSamples ==
  {Fin(0), Fin(7230), Fin(6750), Fin(7158), Fin(7326), Fin(-7230),
   Fin(Deg(360)), Fin(Deg(384) + 30), Fin(Deg(-400)), Fin(1)}

\* observer latitudes: 0, 19.0760 and 26.4499 (the pages' defaults, to the
\* unit), -45, 66, 89, the poles, beyond the pole, and a non-number
LatSamples ==
  {Fin(0), Fin(Deg(19) + 23), Fin(Deg(26) + 135), Fin(Deg(-45)), Fin(Deg(66)),
   Fin(Deg(89)), Fin(Deg(90)), Fin(Deg(-90)), Fin(Deg(95)), NaN}

\* observer longitudes: 0, 80.3319 (default), 90 W, and a non-number
LonObsSamples == {Fin(0), Fin(Deg(80) + 100), Fin(Deg(-90)), NaN}

\* Astronomy.SiderealTime(date), hours in units of 1 / UPD; NaN for an
\* invalid date
SthSamples == {Fin(0), Fin(Deg(6)), Fin(Deg(13) + 40), Fin(Deg(18)), Fin(Deg(23) + 299), NaN}

TiltObj(a, b, c) == [outcome |-> "obj", obliq |-> a, obl |-> b, eps |-> c]

\* what Astronomy.EarthTilt / Astronomy.Tilt may hand back: an object with
\* the obliquity under one of the keys or under none, a falsy value, or an
\* exception; 23.4393 and 23.4367 degrees stand for the obliquity of date
TiltSamples ==
  {TiltObj(Fin(234393000), NaN, NaN), TiltObj(NaN, Fin(234367000), NaN),
   TiltObj(NaN, NaN, Fin(234393000)), TiltObj(NaN, NaN, NaN),
   TiltObj(Fin(234367000), Fin(0), Fin(0)),
   NoTilt, [NoTilt EXCEPT !.outcome = "throws"]}

Resp(al, az) == [alt |-> al, az |-> az]
Over(p, al, az) == [pos |-> p, alt |-> al, az |-> az]

\* Horizon responses: a background response and two longitudes that differ
\* from it; altitudes 0, 0.0067, 1, -3 degrees or NaN, azimuths in and out
\* of the eastern sector or NaN
SkySamples ==
  {[dflt |-> Resp(da, dz), o1 |-> Over(p1, a1, z1), o2 |-> Over(p2, a2, z2)] :
     da \in {Fin(Deg(10)), NaN},
     dz \in {Fin(Deg(200)), Fin(Deg(100)), NaN},
     p1 \in {0, Deg(5), Deg(40), Deg(355), Deg(357), Deg(4) + 60},
     a1 \in {Fin(0), Fin(2), Fin(Deg(1)), Fin(Deg(-3)), NaN},
     z1 \in {Fin(Deg(91)), Fin(Deg(100)), Fin(Deg(200)), Fin(Deg(45)), NaN},
     p2 \in {Deg(5), Deg(40), Deg(350), Deg(40) + 60},
     a2 \in {Fin(1), Fin(Deg(1))},
     z2 \in {Fin(Deg(95)), Fin(Deg(134))}}

DefaultSky ==
  [dflt |-> Resp(Fin(Deg(10)), Fin(Deg(200))),
   o1 |-> Over(Deg(40), Fin(0), Fin(Deg(91))),
   o2 |-> Over(Deg(5), Fin(1), Fin(Deg(95)))]

\* ecl.elon of the ten bodies, e0 + (i - 1) * gap, and the node polynomial
EphemSamples ==
  {[elon |-> [i \in 1 .. Len(BODIES) |-> Fin(e0 + (i - 1) * gap)], omega |-> w] :
     e0 \in {0, 7230, Deg(359) + 299},
     gap \in {Deg(33), Deg(3) + 1},
     w \in {Fin(0), Fin(Deg(125)), Fin(Deg(-1000) + 7)}}

DefaultEphem == [elon |-> [i \in 1 .. Len(BODIES) |-> Fin(Deg(30) * i)], omega |-> Fin(0)]

VARIABLES
  pc,                \* which function has been applied ("input" before any)
  arg,               \* the longitude argument of the longitude arithmetic
  ay,                \* the ayanamsha (ayanamshaDeg)
  res,               \* the results of the longitude arithmetic
  variant,           \* "closed" or "scan"
  lat, lon,          \* the observer's latitude and longitude as passed in
  sth,               \* Astronomy.SiderealTime(date)
  tilt,              \* Astronomy.EarthTilt(date) / Astronomy.Tilt(date)
  sky,               \* Astronomy.Horizon at the date and observer
  ephem,             \* the bodies' ecliptic longitudes at the date
  useSidereal,       \* the sidereal / tropical toggle
  showOuterPlanets,  \* the outer-planets toggle
  out,               \* what the ascendant solver returned
  view,              \* what the Wheel rendered
  arg2,              \* the second longitude of hasAspect(a, b)
  enabledAspects,    \* the aspect targets' checkboxes
  aspectOrb,         \* the orb input
  pts,               \* the points list handed to the marker layout
  offsetHours,       \* the time offset of the playback
  isPlaying,         \* the play / pause state
  stepHours,         \* the step select
  rangeDays,         \* the range select
  rules,             \* the drishti rule-sets of the two bodies of a pair
  tickMs,            \* the speed select
  timers,            \* the intervals that are set, each with what its callback closes over
  effect,            \* the timer effect: whether it is due, and its cleanup
  marker             \* the point whose marker is drawn

vars ==
  <<pc, arg, ay, res, variant, lat, lon, sth, tilt, sky, ephem,
    useSidereal, showOuterPlanets, out, view, arg2, enabledAspects,
    aspectOrb, pts, offsetHours, isPlaying, stepHours, rangeDays, rules,
    tickMs, timers, effect, marker>>

\* the playback state of the page
playback == <<offsetHours, isPlaying, stepHours, rangeDays>>

inputs ==
  <<arg, ay, variant, lat, lon, sth, tilt, sky, ephem, useSidereal,
    showOuterPlanets, arg2, enabledAspects, aspectOrb, pts, playback,
    rules, tickMs, timers, effect, marker>>

\* the timer effect after the first render: it has run, isPlaying was false,
\* so it set no interval and returned no cleanup
NoEffect == [due |-> FALSE, cleanup |-> {}]

\* the first point of the list: { key: "Sun", body: Astronomy.Body.Sun }
SunMarker == [key |-> "Sun", body |-> TRUE, isNode |-> FALSE, throws |-> FALSE]

\* no interval set
TimerIdle == tickMs = 200 /\ timers = {} /\ effect = NoEffect

\* useState({ 0: true, 60: false, 90: true, 120: true, 180: true })
DefaultAspects == [k \in {0, 60, 90, 120, 180} |-> k # 60]

\* the page state at its useState defaults, with nothing to lay out
DefaultPage ==
  /\ arg2 = Fin(0) /\ enabledAspects = DefaultAspects
  /\ aspectOrb = Fin(Deg(6)) /\ pts = <<>>
  /\ offsetHours = 0 /\ isPlaying = FALSE
  /\ stepHours = 6 /\ rangeDays = 90
  /\ rules = [a |-> {}, b |-> {}]
  /\ TimerIdle /\ marker = SunMarker

NoRes ==
  [n1 |-> NaN, n2 |-> NaN, back |-> NaN, z |-> zodiacBreakdown(Fin(0)),
   nk |-> nakshatraOf(Fin(0)), ab |-> FALSE, ba |-> FALSE,
   enhanced |-> <<>>, levels |-> <<>>, retro |-> FALSE,
   pairs |-> <<>>]

NoView ==
  [points |-> <<>>, ascTropical |-> NaN, ascToUse |-> NaN,
   houseCusps |-> equalHouseCusps(Fin(0)), zLon |-> <<>>, nLon |-> <<>>,
   thrown |-> FALSE]

\* nothing computed yet
Fresh == pc = "input" /\ res = NoRes /\ out = NoAsc /\ view = NoView

\* the observer and library inputs at their defaults
DefaultObserver ==
  /\ lat = Fin(Deg(26) + 135) /\ lon = Fin(Deg(80) + 100)
  /\ sth = Fin(Deg(6)) /\ tilt = TiltObj(Fin(234393000), NaN, NaN)
  /\ sky = DefaultSky

DefaultWheel ==
  /\ ephem = DefaultEphem /\ useSidereal = TRUE /\ showOuterPlanets = FALSE

InitNorm ==
  /\ Fresh /\ DefaultObserver /\ DefaultWheel /\ DefaultPage
  /\ variant = "closed"
  /\ arg \in LonSamples
  /\ ay \in AyanamshaSamples \cup {PosTiny}

\* norm360(L) and norm360(norm360(L))
ApplyNorm360 ==
  /\ pc = "input"
  /\ pc' = "norm360"
  /\ res' = [res EXCEPT !.n1 = norm360(arg), !.n2 = norm360(norm360(arg))]
  /\ UNCHANGED <<inputs, out, view>>

\* S = norm360(T - A) and back: norm360(S + A)
ApplySidereal ==
  /\ pc = "input"
  /\ pc' = "sidereal"
  /\ LET S == siderealLongitude(arg, ay)
     IN res' = [res EXCEPT !.n1 = S, !.back = norm360(Add(S, ay))]
  /\ UNCHANGED <<inputs, out, view>>

ApplyZodiacBreakdown ==
  /\ pc = "input"
  /\ pc' = "zodiac"
  /\ res' = [res EXCEPT !.n1 = norm360(arg), !.z = zodiacBreakdown(arg)]
  /\ UNCHANGED <<inputs, out, view>>

ApplyNakshatraOf ==
  /\ pc = "input"
  /\ pc' = "nakshatra"
  /\ res' = [res EXCEPT !.n1 = norm360(arg), !.nk = nakshatraOf(arg)]
  /\ UNCHANGED <<inputs, out, view>>

NextNorm ==
  ApplyNorm360 \/ ApplySidereal \/ ApplyZodiacBreakdown \/ ApplyNakshatraOf

SpecNorm == InitNorm /\ [][NextNorm]_vars

(***************************************************************************)
(* The ascendant solvers on their own                                      *)
(***************************************************************************)

InitClosed ==
  /\ variant = "closed"
  /\ lat \in LatSamples /\ lon \in LonObsSamples
  /\ sth \in SthSamples /\ tilt \in TiltSamples
  /\ sky = DefaultSky

InitScan ==
  /\ variant = "scan"
  /\ lon = Fin(Deg(72) + 263) /\ sth = Fin(Deg(6))
  /\ \/ /\ sky \in SkySamples
        /\ lat = Fin(Deg(19) + 23) /\ tilt = TiltObj(NaN, NaN, Fin(234393000))
     \/ /\ sky = DefaultSky
        /\ lat \in LatSamples /\ tilt \in TiltSamples

InitAsc ==
  /\ Fresh /\ DefaultWheel /\ DefaultPage
  /\ arg = Fin(0) /\ ay = Fin(0)
  /\ InitClosed \/ InitScan

\* ascTropical = computeAscendantDeg(date, lat, lon)
ComputeAscendantDeg ==
  /\ pc = "input" /\ variant = "closed"
  /\ pc' = "asc"
  /\ out' = computeAscendantDeg(sth, tilt, lat, lon)
  /\ UNCHANGED <<inputs, res, view>>

\* ascSignStart = Math.floor(ascLon / 30) * 30 and
\* houseCusps = Array.from({ length: 12 }, (_, i) => norm360(ascSignStart + i * 30))
wholeSignCusps(ascLon) ==
  [i \in 0 .. NumSigns - 1 |->
     CASE ascLon.k = "fin" ->
            norm360(Fin((ascLon.v \div Deg(30)) * Deg(30) + i * Deg(30)))
       [] ascLon.k = "tiny" ->
            norm360(Fin((IF ascLon.v < 0 THEN -Deg(30) ELSE 0) + i * Deg(30)))
       [] OTHER -> NaN]

\* ascLon = ascendantLongitude(date, observer), then the whole-sign cusps;
\* an exception ends the render before them
AscendantLongitude ==
  /\ pc = "input" /\ variant = "scan"
  /\ pc' = "asc"
  /\ out' = ascendantLongitude(tilt, sky, lat)
  /\ view' = IF out'.thrown THEN view
             ELSE [view EXCEPT !.ascToUse = out'.asc,
                               !.houseCusps = wholeSignCusps(out'.asc)]
  /\ UNCHANGED <<inputs, res>>

NextAsc == ComputeAscendantDeg \/ AscendantLongitude

SpecAsc == InitAsc /\ [][NextAsc]_vars

(***************************************************************************)
(* The Wheel render                                                        *)
(***************************************************************************)

\* The ayanamsha 1e-20 (PosTiny), with a longitude of exactly 0, stands for
\* every pair whose difference elon - ayanamshaDeg is negative and too small
\* to survive the addition of 360 in norm360.
InitWheel ==
  /\ Fresh /\ DefaultPage
  /\ variant = "closed" /\ arg = Fin(0) /\ sky = DefaultSky
  /\ ay \in AyanamshaSamples \cup {PosTiny, NaN}
  /\ useSidereal \in BOOLEAN /\ showOuterPlanets \in BOOLEAN
  /\ ephem \in EphemSamples
  /\ lat \in {Fin(Deg(26) + 135), Fin(Deg(90)), NaN}
  /\ lon = Fin(Deg(80) + 100)
  /\ sth \in {Fin(Deg(6)), NaN}
  /\ tilt \in {TiltObj(Fin(234393000), NaN, NaN), NoTilt}

\* Wheel({ date, ayanamshaDeg, useSidereal, showOuterPlanets, lat, lon })
RenderWheel ==
  /\ pc = "input"
  /\ pc' = "wheel"
  /\ view' = Wheel(ephem, ay, useSidereal, showOuterPlanets, sth, tilt, lat, lon)
  /\ out' = computeAscendantDeg(sth, tilt, lat, lon)
  /\ UNCHANGED <<inputs, res>>

NextWheel == RenderWheel

SpecWheel == InitWheel /\ [][NextWheel]_vars

(***************************************************************************)
(* Properties of the longitude arithmetic (SpecNorm)                       *)
(***************************************************************************)

\* C8: for every longitude L, norm360(L) lies in [0, 360) and
\* norm360(norm360(L)) = norm360(L).
C8_Norm360RangeIdempotent ==
  (pc = "norm360" /\ arg.k # "nan") =>
     (InCircle(res.n1) /\ res.n2 = res.n1)

\* C9: for every tropical longitude T in [0, 360) and every ayanamsha A the
\* sidereal longitude is S = norm360(T - A), congruent to T - A, and
\* norm360(S + A) gives T back.
C9_SiderealRoundTrip ==
  (pc = "sidereal" /\ arg.k = "fin" /\ InCircle(arg)) =>
     /\ res.n1 = norm360(Sub(arg, ay))
     /\ (ay.k = "fin" /\ res.n1.k = "fin") => (res.n1.v - (arg.v - ay.v)) % C360 = 0
     /\ res.back = arg

\* a round trip in which T - A is negative and the wrap has acted
C9_Witness ==
  /\ pc = "sidereal" /\ arg.k = "fin" /\ InCircle(arg) /\ ay.k = "fin"
  /\ arg.v - ay.v < 0
  /\ res.n1 = Fin(arg.v - ay.v + C360)
  /\ res.back = arg

\* C10: for every longitude, zodiacBreakdown returns signIndex =
\* floor(norm360(longitude) / 30) in 0 .. 11, deg in 0 .. 29, min in 0 .. 59,
\* and 30 signIndex + deg + min/60 <= norm360(longitude) < 30 signIndex + deg
\* + (min + 1)/60.
C10_ZodiacBreakdownBrackets ==
  (pc = "zodiac" /\ arg.k # "nan") =>
     LET z == res.z
         lonU == IF res.n1.k = "fin" THEN res.n1.v ELSE 0
         lowU == Deg(30) * z.signIndex + Deg(1) * z.deg + (UPD \div 60) * z.min
     IN /\ ~z.thrown
        /\ z.signIndex = lonU \div Deg(30)
        /\ z.signIndex \in 0 .. NumSigns - 1
        /\ z.deg \in 0 .. 29
        /\ z.min \in 0 .. 59
        /\ lowU <= lonU /\ lonU < lowU + UPD \div 60

(***************************************************************************)
(* Properties of the ascendant solvers (SpecAsc)                           *)
(***************************************************************************)

\* C1: for every instant, latitude and longitude, non-finite ones included,
\* the ascendant longitude a solver returns is a number in [0, 360).
C1_AscendantInRange ==
  (pc = "asc" /\ ~out.thrown) => (out.asc.k = "fin" /\ InCircle(out.asc))

\* the closed formula has run on a non-finite latitude and longitude, its
\* atan2 was negative and its result was wrapped into the circle
C1_Witness ==
  /\ pc = "asc" /\ variant = "closed" /\ ~out.thrown
  /\ lat.k = "nan" /\ lon.k = "nan"
  /\ IsNeg(out.lambda)
  /\ out.asc = Fin(out.lambda.v + C360)

\* the longitudes the coarse loop samples: 0, 5, ..., 355
CoarseLams == {CoarseStep * i : i \in 0 .. C360 \div CoarseStep - 1}

\* a sample the coarse loop may choose: azimuth in the eastern sector, a
\* finite altitude
Qualifies(h) == inEastSector(h) /\ h.alt.k = "fin"

\* a horizon crossing among the samples: a qualifying sample within 0.01
\* degrees of the horizon
Crossing(h) == Qualifies(h) /\ Abs(h.alt.v) < CentiDeg

C3_NoCrossingReturnsZero ==
  (pc = "asc" /\ variant = "scan" /\ ~out.thrown /\ ~out.found) =>
     out.asc = Fin(0)

\* C4: the latitude used in the ascendant computation lies strictly between
\* -89.9999 and 89.9999 degrees, whatever latitude was put in.
C4_LatitudeClamped ==
  (pc = "asc" /\ ~out.thrown) =>
     (out.latUsed.k = "fin" /\ Abs(out.latUsed.v) * 10000 < 899999 * UPD)

\* the library supplied no finite obliquity, or the lookup failed
NoObliquity ==
  \/ tilt.outcome # "obj"
  \/ ~isFinite(tilt.obliq) /\ ~isFinite(tilt.obl) /\ ~isFinite(tilt.eps)

\* C5: whenever the library supplies no finite obliquity, or the lookup
\* fails, the ascendant computation uses 23.4392911 degrees and still
\* returns a result.
C5_ObliquityFallback ==
  (pc = "asc" /\ NoObliquity) =>
     (~out.thrown /\ out.epsUsed = Fin(EpsDefault))

\* C6: at latitude 0, local sidereal angle 0 and obliquity 23.4393 degrees
\* the closed-form solver returns 0.
C6_EquatorAtEquinox ==
  (/\ pc = "asc" /\ variant = "closed" /\ ~out.thrown
   /\ out.latUsed = Fin(0) /\ out.theta = Fin(0)
   /\ out.epsUsed = Fin(234393000)) => out.asc = Fin(0)

\* the observer is on the equator at sidereal time 0 and the solver has
\* returned 0 from an atan2 of exactly 0
C6_Witness ==
  /\ pc = "asc" /\ variant = "closed" /\ ~out.thrown
  /\ lat = Fin(0) /\ sth = Fin(0) /\ lon = Fin(0)
  /\ out.theta = Fin(0) /\ out.epsUsed = Fin(234393000)
  /\ out.lambda = Fin(0) /\ out.asc = Fin(0)

(***************************************************************************)
(* Properties of the Wheel render (SpecWheel)                              *)
(***************************************************************************)

exactLon(L) ==
  CASE L.k = "fin" -> L.v % C360
    [] L.v < 0 -> C360 - 1
    [] OTHER -> 0

\* C11: for every longitude L, nakshatraOf returns the index
\* floor(norm360(L) / (360/27)), which lies in 0..26, and the pada
\* floor(remainder / (360/108)) + 1, which lies in 1..4; L = 0 gives index 0
\* and pada 1, L = 359.99 gives index 26 and pada 4.
C11_NakshatraIndexPada ==
  (pc = "nakshatra" /\ arg.k # "nan") =>
     LET L == exactLon(arg)
         index == L \div NAK_SIZE
         remainder == L - index * NAK_SIZE
     IN /\ ~res.nk.thrown
        /\ res.nk.index = index /\ res.nk.index \in 0 .. NumNakshatras - 1
        /\ res.nk.pada = remainder \div PADA_SIZE + 1 /\ res.nk.pada \in 1 .. 4
        /\ (arg = Fin(0) => res.nk.index = 0 /\ res.nk.pada = 1)
        /\ (arg = Fin(Deg(359) + 297) => res.nk.index = 26 /\ res.nk.pada = 4)

(***************************************************************************)
(* hasAspect                                                               *)
(***************************************************************************)

\* The order of the numbers: a tiny value lies strictly between 0 and the
\* first unit on its side.  Defined on everything but NaN.
Rank(x) == IF x.k = "fin" THEN 3 * x.v ELSE x.v

\* x <= y: false when either is NaN
Leq(x, y) == x.k # "nan" /\ y.k # "nan" /\ Rank(x) <= Rank(y)

\* Math.min(x, y): NaN when either is NaN
mathMin(x, y) ==
  IF x.k = "nan" \/ y.k = "nan" THEN NaN
  ELSE IF Rank(x) <= Rank(y) THEN x ELSE y

\* Math.abs(x)
mathAbs(x) == [x EXCEPT !.v = Abs(x.v)]

\* hasAspect with the separation measured in one direction only
hasAspect_OneWay(a, b, enabled, orb) ==
  LET ang == norm360(Sub(a, b))
  IN \E k \in DOMAIN enabled :
        enabled[k] /\ Leq(mathAbs(Sub(ang, Fin(Deg(k)))), orb)

\* hasAspect(a, b): Object.keys(enabledAspects).filter(k =>
\* enabledAspects[k]).map(parseFloat).some(target => |ang - target| <= orb)
hasAspect(a, b, enabled, orb) ==
  LET ang == mathMin(norm360(Sub(a, b)), norm360(Sub(b, a)))
  IN \E k \in DOMAIN enabled :
        enabled[k] /\ Leq(mathAbs(Sub(ang, Fin(Deg(k)))), orb)

\* second longitudes, orbs (0, 0.5, 6 and 10 degrees) and checkbox states
Arg2Samples ==
  {Fin(0), Fin(Deg(60)), Fin(Deg(359) + 150), Fin(Deg(-91)), Fin(C360),
   PosTiny, NaN}

OrbSamples == {Fin(0), Fin(150), Fin(Deg(6)), Fin(Deg(10))}

AspectSamples ==
  {DefaultAspects, [k \in DOMAIN DefaultAspects |-> FALSE],
   [k \in DOMAIN DefaultAspects |-> k = 60]}

InitAspect ==
  /\ Fresh /\ DefaultObserver /\ DefaultWheel
  /\ variant = "closed" /\ ay = Fin(0)
  /\ arg \in LonSamples /\ arg2 \in Arg2Samples
  /\ enabledAspects \in AspectSamples /\ aspectOrb \in OrbSamples
  /\ pts = <<>> /\ offsetHours = 0 /\ isPlaying = FALSE
  /\ stepHours = 6 /\ rangeDays = 90
  /\ rules = [a |-> {}, b |-> {}]
  /\ TimerIdle /\ marker = SunMarker

\* hasAspect(a.lon, b.lon) and hasAspect(b.lon, a.lon)
ApplyHasAspect ==
  /\ pc = "input"
  /\ pc' = "aspect"
  /\ res' = [res EXCEPT
               !.ab = hasAspect(arg, arg2, enabledAspects, aspectOrb),
               !.ba = hasAspect(arg2, arg, enabledAspects, aspectOrb)]
  /\ UNCHANGED <<inputs, out, view>>

NextAspect == ApplyHasAspect

SpecAspect == InitAspect /\ [][NextAspect]_vars

\* the angular separation of two longitudes given in units, in exact
\* arithmetic: the shorter way round the circle
separation(a, b) ==
  LET d == (a - b) % C360
  IN IF d <= C360 - d THEN d ELSE C360 - d

\* C12: hasAspect(a, b) is true exactly when the angular separation of a and
\* b is within aspectOrb of a target whose checkbox is on (a target that is
\* off never produces an aspect), and hasAspect(a, b) = hasAspect(b, a).
C12_AspectWithinOrbSymmetric ==
  pc = "aspect" =>
     /\ res.ab = res.ba
     /\ (arg.k = "fin" /\ arg2.k = "fin") =>
          (res.ab <=> \E k \in DOMAIN enabledAspects :
                         /\ enabledAspects[k]
                         /\ Abs(separation(arg.v, arg2.v) - Deg(k)) <= aspectOrb.v)

\* two different longitudes whose separation across 0 is within the orb of
\* the 90 degree target and outside the orb of every other, and hasAspect
\* has answered true
C12_Witness ==
  /\ pc = "aspect" /\ res.ab
  /\ arg.k = "fin" /\ arg2.k = "fin" /\ arg.v < arg2.v - C360 \div 2
  /\ enabledAspects = DefaultAspects
  /\ Abs(separation(arg.v, arg2.v) - Deg(90)) <= aspectOrb.v

(***************************************************************************)
(* Sign-based drishti.  The component that draws drishti links is not      *)
(* among the sources at hand; the rule is taken from its description: the  *)
(* sign-distance from A's sign to B's sign, 1-indexed, counted forward,    *)
(* wrapping mod 12, must be in A's allowed set.                            *)
(***************************************************************************)

\* the sign-distance counted from 0, so that a body's own sign is the 0th
signDistance_ZeroIndexed(signA, signB) == (signB - signA) % NumSigns

\* the sign-distance from A's sign to B's sign: its own sign is the 1st,
\* the next sign forward the 2nd, the sign before it the 12th
signDistance(signA, signB) == ((signB - signA) % NumSigns) + 1

\* A links to B
drishti(signA, allowedA, signB) == signDistance(signA, signB) \in allowedA

\* rule-sets: the 7th sign only, Mars, Jupiter, Saturn
RuleSamples == {{7}, {4, 7, 8}, {5, 7, 9}, {3, 7, 10}}

\* longitudes at the start, the middle and the last unit of every sign
SignLonSamples ==
  {Fin(Deg(30) * s + f) : s \in 0 .. NumSigns - 1, f \in {0, Deg(15), Deg(30) - 1}}

InitDrishti ==
  /\ Fresh /\ DefaultObserver /\ DefaultWheel
  /\ variant = "closed" /\ ay = Fin(0)
  /\ arg \in SignLonSamples /\ arg2 \in SignLonSamples
  /\ rules \in [a : RuleSamples, b : RuleSamples]
  /\ enabledAspects = DefaultAspects /\ aspectOrb = Fin(Deg(6))
  /\ pts = <<>> /\ offsetHours = 0 /\ isPlaying = FALSE
  /\ stepHours = 6 /\ rangeDays = 90
  /\ TimerIdle /\ marker = SunMarker

\* the links A -> B and B -> A of one pair of bodies
ApplyDrishti ==
  /\ pc = "input"
  /\ pc' = "drishti"
  /\ LET signA == zodiacBreakdown(arg).signIndex
         signB == zodiacBreakdown(arg2).signIndex
     IN res' = [res EXCEPT !.ab = drishti(signA, rules.a, signB),
                           !.ba = drishti(signB, rules.b, signA)]
  /\ UNCHANGED <<inputs, out, view>>

NextDrishti == ApplyDrishti

SpecDrishti == InitDrishti /\ [][NextDrishti]_vars

\* the sign a longitude given in units lies in
signOf(v) == v \div Deg(30)

\* the signs that lie d - 1 signs ahead of signA for some d in allowed
aspectedSigns(signA, allowed) ==
  {s \in 0 .. NumSigns - 1 :
     \E d \in allowed : \E n \in 0 .. 1 : signA + d - 1 = s + NumSigns * n}

\* C13: in sign-based drishti a body A links to a body B exactly when the
\* sign-distance from A's sign to B's sign (1-indexed, counted forward,
\* wrapping mod 12) is in A's allowed set; Mars in sign 0 with the rule-set
\* {4, 7, 8} links to bodies in the signs 3, 6 and 7 and to no others.  (That
\* the relation is directional is the state C13_Witness.)
C13_DrishtiSignDistance ==
  pc = "drishti" =>
     /\ res.ab <=> signOf(arg2.v) \in aspectedSigns(signOf(arg.v), rules.a)
     /\ res.ba <=> signOf(arg.v) \in aspectedSigns(signOf(arg2.v), rules.b)
     /\ (signOf(arg.v) = 0 /\ rules.a = {4, 7, 8}) =>
          (res.ab <=> signOf(arg2.v) \in {3, 6, 7})

\* Mars in sign 0 links to a body in sign 3 whose own rule-set, the 7th sign
\* only, does not reach back to sign 0: A -> B without B -> A
C13_Witness ==
  /\ pc = "drishti"
  /\ signOf(arg.v) = 0 /\ rules.a = {4, 7, 8}
  /\ signOf(arg2.v) = 3 /\ rules.b = {7}
  /\ res.ab /\ ~res.ba

(***************************************************************************)
(* Label collision avoidance: resolveCollisions and computeLabelLevels.    *)
(* A point is a record of its longitude lon and its _bump field; bump = 0  *)
(* stands for an object without the field (the code reads it as            *)
(* _bump || 0 and only ever stores values from 1 up).                      *)
(***************************************************************************)

\* x < y: false when either is NaN
Lt(x, y) == x.k # "nan" /\ y.k # "nan" /\ Rank(x) < Rank(y)

\* [...points].sort((a, b) => a.lon - b.lon): the place of points[i] in the
\* sorted copy; the sort is stable
sortedPlace(points, i) ==
  1 + Cardinality({j \in DOMAIN points :
                     \/ Lt(points[j].lon, points[i].lon)
                     \/ points[j].lon = points[i].lon /\ j < i})

\* the index in points of the object at place k of the sorted copy
sortedAt(points, k) == CHOOSE i \in DOMAIN points : sortedPlace(points, i) = k

\* gap < minSepDeg, gap = Math.abs(norm360(cur.lon - prev.lon))
gapCollides(prev, cur, minSepDeg) ==
  Lt(mathAbs(norm360(Sub(cur.lon, prev.lon))), minSepDeg)

\* a colliding point always put on level 1
nextBump_One(prevBump) == 1

\* (prev._bump || 0) + 1
nextBump(prevBump) == prevBump + 1

\* the for loop from place i on; objs is the objects' state so far
RECURSIVE sweep(_, _, _)
sweep(objs, i, minSepDeg) ==
  IF i > Len(objs) THEN objs
  ELSE LET p == sortedAt(objs, i - 1)
           c == sortedAt(objs, i)
       IN IF gapCollides(objs[p], objs[c], minSepDeg)
          THEN sweep([objs EXCEPT ![c].bump = nextBump(objs[p].bump)],
                     i + 1, minSepDeg)
          ELSE sweep(objs, i + 1, minSepDeg)

\* the wraparound check left out
wrapCollides_Never(first, last, minSepDeg) == FALSE

\* wrapGap < minSepDeg, wrapGap = Math.abs(norm360(first.lon + 360 - last.lon))
wrapCollides(first, last, minSepDeg) ==
  Lt(mathAbs(norm360(Sub(Add(first.lon, Fin(C360)), last.lon))), minSepDeg)

\* resolveCollisions(points, minSepDeg): the objects of points as the call
\* leaves them, in the order of points (the array returned is points itself)
resolveCollisions(points, minSepDeg) ==
  LET swept == sweep(points, 2, minSepDeg)
      f == sortedAt(points, 1)
      l == sortedAt(points, Len(points))
  IN IF Len(points) > 1 /\ wrapCollides(swept[f], swept[l], minSepDeg)
     THEN [swept EXCEPT ![f].bump = nextBump(swept[l].bump)]
     ELSE swept

\* computeLabelLevels: the sorted place k opens a group (k = 1, or
\* curr.lon - prev.lon <= thresholdDeg fails)
opensGroup(pts0, k, thresholdDeg) ==
  \/ k = 1
  \/ ~Leq(Sub(pts0[sortedAt(pts0, k)].lon, pts0[sortedAt(pts0, k - 1)].lon),
          thresholdDeg)

\* the place that opened the group of place k
groupStart(pts0, k, thresholdDeg) ==
  CHOOSE j \in 1 .. k :
     /\ opensGroup(pts0, j, thresholdDeg)
     /\ \A m \in j + 1 .. k : ~opensGroup(pts0, m, thresholdDeg)

\* a grouping that never puts the last group in front of the first
mergesTail_Never(pts0, thresholdDeg) == FALSE

\* (first.lon + 360 - last.lon) <= thresholdDeg && groups.length > 1
mergesTail(pts0, thresholdDeg) ==
  LET first == pts0[sortedAt(pts0, 1)]
      last == pts0[sortedAt(pts0, Len(pts0))]
  IN /\ Leq(Sub(Add(first.lon, Fin(C360)), last.lon), thresholdDeg)
     /\ \E k \in 2 .. Len(pts0) : opensGroup(pts0, k, thresholdDeg)

\* computeLabelLevels(pts, thresholdDeg): the Map from a point's index to
\* its position in its group, the last group put in front of the first one
\* when the two meet across 0
computeLabelLevels(pts0, thresholdDeg) ==
  LET n == Len(pts0)
      tail == n - groupStart(pts0, n, thresholdDeg) + 1
      level(k) ==
        IF mergesTail(pts0, thresholdDeg) /\ groupStart(pts0, k, thresholdDeg) = 1
        THEN tail + (k - 1)
        ELSE k - groupStart(pts0, k, thresholdDeg)
  IN [i \in DOMAIN pts0 |-> level(sortedPlace(pts0, i))]

\* points.map(p => ({ ...p })): new objects with the same fields
spreadCopies(points) == [i \in DOMAIN points |-> points[i]]

\* the marker layer works on the objects of points themselves
layoutPoints_InPlace(points, minSepDeg) ==
  LET done == resolveCollisions(points, minSepDeg)
  IN [enhanced |-> done, points |-> done]

\* const enhanced = resolveCollisions(points.map(p => ({ ...p })), 4):
\* what the marker layer draws, and the objects of points afterwards
layoutPoints(points, minSepDeg) ==
  [enhanced |-> resolveCollisions(spreadCopies(points), minSepDeg),
   points |-> points]

\* The most points laid out at once.
MaxPoints == 3

\* plotted longitudes: in [0, 360), and the 360 that norm360 returns for a
\* tiny negative argument
PlotSamples ==
  {Fin(0), Fin(Deg(1)), Fin(Deg(10)), Fin(Deg(11)), Fin(Deg(12)),
   Fin(Deg(14)), Fin(Deg(357)), Fin(Deg(359)), Fin(C360)}

\* points = filtered.map(p => ({ ...p, lon: ... })): objects without _bump
PointLists ==
  UNION {[1 .. n -> [lon : PlotSamples, bump : {0}]] : n \in 0 .. MaxPoints}

InitMarkers ==
  /\ Fresh /\ DefaultObserver /\ DefaultWheel /\ DefaultPage
  /\ variant \in {"closed", "scan"}
  /\ arg = Fin(0) /\ ay = Fin(0)

\* the Wheel body of the first render: the points list is built
BuildPoints ==
  /\ pc = "input"
  /\ pc' = "points"
  /\ pts' \in PointLists
  /\ res' = NoRes
  /\ UNCHANGED <<arg, ay, variant, lat, lon, sth, tilt, sky, ephem,
                 useSidereal, showOuterPlanets, arg2, enabledAspects,
                 aspectOrb, playback, rules, out, view, tickMs, timers,
                 effect, marker>>

\* the Wheel body of a further render at the same date: the points list is
\* built anew, as new objects, from the same longitudes
RebuildPoints ==
  /\ pc \in {"markers", "labels"}
  /\ pc' = "points"
  /\ pts' = [i \in DOMAIN pts |-> [lon |-> pts[i].lon, bump |-> 0]]
  /\ res' = NoRes
  /\ UNCHANGED <<arg, ay, variant, lat, lon, sth, tilt, sky, ephem,
                 useSidereal, showOuterPlanets, arg2, enabledAspects,
                 aspectOrb, playback, rules, out, view, tickMs, timers,
                 effect, marker>>

\* the planet markers of the render
RenderMarkers ==
  /\ pc = "points" /\ variant = "closed"
  /\ pc' = "markers"
  /\ LET done == layoutPoints(pts, Fin(Deg(4)))
     IN /\ res' = [res EXCEPT !.enhanced = done.enhanced]
        /\ pts' = done.points
  /\ UNCHANGED <<arg, ay, variant, lat, lon, sth, tilt, sky, ephem,
                 useSidereal, showOuterPlanets, arg2, enabledAspects,
                 aspectOrb, playback, rules, out, view, tickMs, timers,
                 effect, marker>>

\* const labelLevels = computeLabelLevels(points, 3)
ComputeLabelLevels ==
  /\ pc = "points" /\ variant = "scan"
  /\ pc' = "labels"
  /\ res' = [res EXCEPT !.levels =
               IF Len(pts) = 0 THEN <<>> ELSE computeLabelLevels(pts, Fin(Deg(3)))]
  /\ UNCHANGED <<inputs, out, view>>

NextMarkers ==
  BuildPoints \/ RebuildPoints \/ RenderMarkers \/ ComputeLabelLevels

SpecMarkers == InitMarkers /\ [][NextMarkers]_vars

(***************************************************************************)
(* Properties of the label layout (SpecMarkers)                            *)
(***************************************************************************)

\* the longitude, in units, of the point at place k of the sorted order
lonAt(points, k) == points[sortedAt(points, k)].lon.v

\* the bump level of the drawn point at place k of the sorted order
bumpAt(k) == res.enhanced[sortedAt(pts, k)].bump

\* the smallest and the largest longitude are closer than the threshold
\* going round through 0 / 360
closeAcrossZero(points, threshold) ==
  /\ Len(points) > 1
  /\ (lonAt(points, 1) + C360 - lonAt(points, Len(points))) % C360 < threshold

\* C14: when no wraparound collision applies (the way from the largest
\* longitude on through 0 to the smallest is not shorter than minSepDeg; it
\* has length 0 when all bodies share one longitude), the first body in ascending
\* order gets bump level 0, a body less than minSepDeg from its predecessor
\* gets its predecessor's level plus one (a run of k such bodies gets
\* 0, 1, ..., k-1) and a body at least minSepDeg from its predecessor gets
\* level 0; longitudes 10, 11, 12 with minSepDeg = 4 get (0, 1, 2).
C14_RunsGetIncreasingBumps ==
  (pc = "markers" /\ Len(pts) > 0) =>
     /\ ~closeAcrossZero(pts, Deg(4)) =>
          /\ bumpAt(1) = 0
          /\ \A k \in 2 .. Len(pts) :
                IF lonAt(pts, k) - lonAt(pts, k - 1) < Deg(4)
                THEN bumpAt(k) = bumpAt(k - 1) + 1
                ELSE bumpAt(k) = 0
     /\ (\A i \in DOMAIN pts : pts[i].lon = Fin(Deg(9 + i)) /\ Len(pts) = 3) =>
          \A i \in DOMAIN pts : res.enhanced[i].bump = i - 1

\* the bodies at 10, 11 and 12 degrees have been laid out on the levels
\* 0, 1 and 2
C14_Witness ==
  /\ pc = "markers"
  /\ pts = [i \in 1 .. 3 |-> [lon |-> Fin(Deg(9 + i)), bump |-> 0]]
  /\ res.enhanced = [i \in 1 .. 3 |-> [lon |-> Fin(Deg(9 + i)), bump |-> i - 1]]

\* C15: the circle is closed.  When the smallest and the largest plotted
\* longitude are closer than the threshold across the 0 / 360 boundary the
\* two bodies get different levels: resolveCollisions puts the first one
\* level above the last, computeLabelLevels puts the last group in front of
\* the first so that the first comes right after the last.
C15_CircleIsClosed ==
  /\ (pc = "markers" /\ closeAcrossZero(pts, Deg(4))) =>
        bumpAt(1) = bumpAt(Len(pts)) + 1
  /\ (pc = "labels" /\ closeAcrossZero(pts, Deg(3))) =>
        res.levels[sortedAt(pts, 1)] # res.levels[sortedAt(pts, Len(pts))]

\* bodies at 359, 1 and 10 degrees: the group of 359 has been put in front
\* of the group of 1, so 359 is on level 0 and 1 on level 1
C15_Witness ==
  /\ pc = "labels"
  /\ pts = <<[lon |-> Fin(Deg(359)), bump |-> 0], [lon |-> Fin(Deg(1)), bump |-> 0],
             [lon |-> Fin(Deg(10)), bump |-> 0]>>
  /\ closeAcrossZero(pts, Deg(3))
  /\ res.levels = <<0, 1, 0>>

\* the points list as built for a render: no object has a _bump field
freshPoints(points) == [i \in DOMAIN points |-> [lon |-> points[i].lon, bump |-> 0]]

\* C19: nothing is carried from one render to the next.  The marker layer
\* leaves the points list as it was (no _bump field, same order, same
\* longitudes), and the bump levels it draws are those of the current
\* longitudes alone.
C19_RenderLeavesPointsAlone ==
  [][(pc = "points" /\ pc' = "markers") =>
        /\ pts' = pts
        /\ \A i \in DOMAIN pts' : pts'[i].bump = 0
        /\ res'.enhanced = resolveCollisions(freshPoints(pts'), Fin(Deg(4)))]_vars

\* the markers of two colliding bodies have been drawn on different levels
\* and the points list still has no _bump field
C19_Witness ==
  /\ pc = "markers" /\ Len(pts) > 1
  /\ \E i \in DOMAIN pts : res.enhanced[i].bump > 0
  /\ \A i \in DOMAIN pts : pts[i].bump = 0 /\ res.enhanced[i].lon = pts[i].lon

(***************************************************************************)
(* Playback: the interval timer and the time controls                      *)
(***************************************************************************)

\* the options of the step select, in hours
StepOptions == {1, 3, 6, 12, 24}

\* ranges tried, in days: the two smallest of the options 30, 90, 180, 365
RangeSamples == {30, 90}

\* How far, in hours, the step buttons may take the offset beyond the
\* widest range tried.
MaxOvershoot == 48

\* the updater without the lower bound
tick_NoLowerWrap(h, step, range) ==
  LET limit == range * 24
      next == h + step
  IN IF next > limit THEN -limit ELSE next

\* the updater of the timer: h => { limit = rangeDays * 24; next = h +
\* stepHours; next > limit -> -limit; next < -limit -> limit; else next }
tick(h, step, range) ==
  LET limit == range * 24
      next == h + step
  IN IF next > limit THEN -limit
     ELSE IF next < -limit THEN limit
     ELSE next

\* the offsets the step buttons may reach
withinReach(h) == Abs(h) <= 90 * 24 + MaxOvershoot

InitPlayback ==
  /\ Fresh /\ DefaultObserver /\ DefaultWheel /\ DefaultPage
  /\ variant \in {"closed", "scan"}
  /\ arg = Fin(0) /\ ay = Fin(0)

\* what no time control touches
still ==
  <<arg, ay, variant, lat, lon, sth, tilt, sky, ephem, useSidereal,
    showOuterPlanets, arg2, enabledAspects, aspectOrb, pts, rules, res, out,
    view, tickMs, timers, effect, marker>>

\* one firing of the interval, which runs only while playing
TimerTick ==
  /\ isPlaying
  /\ pc' = "tick"
  /\ offsetHours' = tick(offsetHours, stepHours, rangeDays)
  /\ UNCHANGED <<isPlaying, stepHours, rangeDays, still>>

\* the Play / Pause button
TogglePlay ==
  /\ pc' = "control"
  /\ isPlaying' = ~isPlaying
  /\ UNCHANGED <<offsetHours, stepHours, rangeDays, still>>

\* the step buttons: h - stepHours and h + stepHours, unclamped
StepButton ==
  /\ pc' = "control"
  /\ \E d \in {-1, 1} :
        /\ withinReach(offsetHours + d * stepHours)
        /\ offsetHours' = offsetHours + d * stepHours
  /\ UNCHANGED <<isPlaying, stepHours, rangeDays, still>>

\* the Reset button
ResetOffset ==
  /\ pc' = "control"
  /\ offsetHours' = 0
  /\ UNCHANGED <<isPlaying, stepHours, rangeDays, still>>

\* the step select
SetStepHours ==
  /\ pc' = "control"
  /\ stepHours' \in StepOptions
  /\ UNCHANGED <<offsetHours, isPlaying, rangeDays, still>>

\* the range select; the offset stays what it was
SetRangeDays ==
  /\ pc' = "control"
  /\ rangeDays' \in RangeSamples
  /\ UNCHANGED <<offsetHours, isPlaying, stepHours, still>>

\* the slider, dragged to either end
DragSlider ==
  /\ pc' = "control"
  /\ offsetHours' \in {-rangeDays * 24, rangeDays * 24}
  /\ UNCHANGED <<isPlaying, stepHours, rangeDays, still>>

NextPlayback ==
  \/ TimerTick \/ TogglePlay \/ StepButton \/ ResetOffset
  \/ SetStepHours \/ SetRangeDays \/ DragSlider

SpecPlayback == InitPlayback /\ [][NextPlayback]_vars

\* C16: a timer tick replaces the offset h by h + stepHours, except that a
\* result above +rangeDays * 24 becomes -rangeDays * 24 and a result below
\* -rangeDays * 24 becomes +rangeDays * 24; after the tick the offset lies in
\* [-rangeDays * 24, +rangeDays * 24], whatever it was before.
C16_TickWrapsIntoRange ==
  [][pc' = "tick" =>
        /\ -rangeDays * 24 <= offsetHours' /\ offsetHours' <= rangeDays * 24
        /\ offsetHours' =
             IF offsetHours + stepHours > rangeDays * 24 THEN -rangeDays * 24
             ELSE IF offsetHours + stepHours < -rangeDays * 24 THEN rangeDays * 24
             ELSE offsetHours + stepHours]_vars

\* a tick has just taken the offset to the upper end of a range of 30 days
\* with a step of one hour: it came from below the range, not from inside
C16_Witness ==
  /\ pc = "tick" /\ isPlaying
  /\ rangeDays = 30 /\ stepHours = 1 /\ offsetHours = 30 * 24

(***************************************************************************)
(* Properties of the nodes and of the sidereal toggle (SpecWheel)          *)
(***************************************************************************)

\* the plotted point of a key
pointOf(key) == CHOOSE p \in {view.points[i] : i \in DOMAIN view.points} : p.key = key

\* C17: at every instant the plotted longitudes of Rahu and Ketu both lie
\* in [0, 360) and Ketu = norm360(Rahu + 180), so the two are exactly 180
\* degrees apart, in tropical and in sidereal mode alike.
C17_NodesOpposite ==
  (pc = "wheel" /\ isFinite(ay)) =>
     LET rahu == pointOf("Rahu").lon
         ketu == pointOf("Ketu").lon
     IN /\ InCircle(rahu) /\ InCircle(ketu)
        /\ ketu = norm360(Add(rahu, Fin(Deg(180))))
        /\ (rahu.k = "fin" /\ ketu.k = "fin") =>
              separation(rahu.v, ketu.v) = Deg(180)

\* the placements the table shows for the points: longitude, sign, degree
\* and minute
placements(zLon) ==
  [i \in DOMAIN zLon |->
     LET z == zodiacBreakdown(zLon[i])
     IN [lon |-> zLon[i], sign |-> z.signIndex, deg |-> z.deg, min |-> z.min]]

\* C20: with the ayanamsha at 0 the plotted longitude, sign, degree and
\* minute of every body are the same whether the Sidereal toggle is on or
\* off.
C20_ZeroAyanamshaIsTropical ==
  (pc = "wheel" /\ ay = Fin(0)) =>
     LET other == Wheel(ephem, ay, ~useSidereal, showOuterPlanets, sth, tilt, lat, lon)
     IN /\ [i \in DOMAIN view.points |-> view.points[i].lon]
             = [i \in DOMAIN other.points |-> other.points[i].lon]
        /\ placements(view.zLon) = placements(other.zLon)

\* the wheel has been rendered in sidereal mode with the ayanamsha at 0, and
\* the Sun sits where the tropical ephemeris puts it, 24 degrees 6 minutes
C20_Witness ==
  /\ pc = "wheel" /\ ay = Fin(0) /\ useSidereal
  /\ pointOf("Sun").elon = Fin(7230)
  /\ pointOf("Sun").lon = Fin(7230)
  /\ placements(view.zLon)[1] = [lon |-> Fin(7230), sign |-> 0, deg |-> 24, min |-> 6]

(***************************************************************************)
(* Properties of the house cusps (SpecWheel, SpecAsc)                      *)
(***************************************************************************)

\* twelve cusps, all in [0, 360), pairwise distinct, each 30 degrees on
\* from the one before
twelveCusps(cusps) ==
  /\ DOMAIN cusps = 0 .. 11
  /\ \A k \in DOMAIN cusps : InCircle(cusps[k])
  /\ \A j, k \in DOMAIN cusps : j # k => cusps[j] # cusps[k]
  /\ \A k \in 1 .. 11 :
        (cusps[k].k = "fin" /\ cusps[k - 1].k = "fin") =>
           (cusps[k].v - cusps[k - 1].v) % C360 = Deg(30)

\* C18: for every ascendant value exactly 12 house cusps are produced, all
\* in [0, 360), pairwise distinct and 30 degrees apart.  Equal houses:
\* cusp k = norm360(asc + 30 k) and cusp 0 is the ascendant.  Whole signs:
\* cusp k = norm360(30 floor(asc / 30) + 30 k), so cusp 0 <= asc < cusp 0 + 30.
C18_TwelveCusps ==
  /\ (pc = "wheel" /\ isFinite(view.ascToUse)) =>
        /\ twelveCusps(view.houseCusps)
        /\ \A k \in 0 .. 11 :
              view.houseCusps[k] = norm360(Add(view.ascToUse, Fin(Deg(30) * k)))
        /\ view.houseCusps[0] = view.ascToUse
  /\ (pc = "asc" /\ variant = "scan" /\ ~out.thrown) =>
        /\ twelveCusps(view.houseCusps)
        /\ out.asc.k = "fin" =>
              /\ \A k \in 0 .. 11 :
                    view.houseCusps[k] =
                      norm360(Fin(Deg(30) * (out.asc.v \div Deg(30)) + Deg(30) * k))
              /\ view.houseCusps[0].v <= out.asc.v
              /\ out.asc.v < view.houseCusps[0].v + Deg(30)

(***************************************************************************)
(* Properties of the time controls (SpecPlayback)                          *)
(***************************************************************************)

\* C23: after any sequence of Play / Pause, timer ticks, manual steps,
\* Reset, slider moves and changes of step size or range, offsetHours lies
\* within [-rangeDays * 24, +rangeDays * 24], the bounds of the slider.
C23_OffsetWithinSliderBounds ==
  -rangeDays * 24 <= offsetHours /\ offsetHours <= rangeDays * 24

(***************************************************************************)
(* The timer effect.  useEffect(() => { if (!isPlaying) return; const id = *)
(* setInterval(...); return () => clearInterval(id); }, [isPlaying,        *)
(* stepHours, tickMs, rangeDays]).  React runs the effect after the render *)
(* that changed a dependency, its previous cleanup first; whether an       *)
(* interval callback can still fire between that render and the effect     *)
(* depends on the React version, so the effect is a step of its own.  The  *)
(* callback of an interval closes over the stepHours and rangeDays of the  *)
(* render that set it; the updater it queues gets the latest offsetHours.  *)
(***************************************************************************)

\* the options of the speed select, in milliseconds
SpeedOptions == {50, 200, 500}

\* steps tried with the effect: two of the options 1, 3, 6, 12, 24
TimerStepSamples == {6, 24}

\* a cleanup that clears nothing
afterCleanup_Leak(set, cleanup) == set

\* the intervals left by the cleanup () => clearInterval(id) of the last run
afterCleanup(set, cleanup) == set \ cleanup

\* an effect that sets its interval whether playing or not
startsTimer_Always(playing) == TRUE

\* if (!isPlaying) return;
startsTimer(playing) == playing

InitTimer == InitPlayback /\ variant = "closed"

\* the effect runs: the cleanup of its last run, then its body
RunEffect ==
  /\ effect.due
  /\ pc' = "effect"
  /\ LET cleared == afterCleanup(timers, effect.cleanup)
         mine == [step |-> stepHours, range |-> rangeDays, ms |-> tickMs]
     IN IF startsTimer(isPlaying)
        THEN timers' = cleared \cup {mine} /\ effect' = [due |-> FALSE, cleanup |-> {mine}]
        ELSE timers' = cleared /\ effect' = NoEffect
  /\ UNCHANGED <<arg, ay, variant, lat, lon, sth, tilt, sky, ephem,
                 useSidereal, showOuterPlanets, arg2, enabledAspects,
                 aspectOrb, pts, rules, res, out, view, playback, tickMs,
                 marker>>

\* an interval that is set fires: setOffsetHours(h => ...) with the
\* stepHours and rangeDays its callback closed over
IntervalFires ==
  /\ pc' = "tick"
  /\ \E t \in timers : offsetHours' = tick(offsetHours, t.step, t.range)
  /\ UNCHANGED <<isPlaying, stepHours, rangeDays, still>>

\* a handler that changes a dependency of the effect; React runs an effect
\* that is due before it renders again
changesDependency ==
  /\ ~effect.due
  /\ pc' = "control"
  /\ effect' = [effect EXCEPT !.due = TRUE]
  /\ UNCHANGED <<arg, ay, variant, lat, lon, sth, tilt, sky, ephem,
                 useSidereal, showOuterPlanets, arg2, enabledAspects,
                 aspectOrb, pts, rules, res, out, view, timers, offsetHours,
                 marker>>

\* the Play / Pause button
ClickPlayPause ==
  /\ changesDependency
  /\ isPlaying' = ~isPlaying
  /\ UNCHANGED <<stepHours, rangeDays, tickMs>>

\* the step select, changed
SelectStep ==
  /\ changesDependency
  /\ stepHours' \in TimerStepSamples \ {stepHours}
  /\ UNCHANGED <<isPlaying, rangeDays, tickMs>>

\* the range select, changed
SelectRange ==
  /\ changesDependency
  /\ rangeDays' \in RangeSamples \ {rangeDays}
  /\ UNCHANGED <<isPlaying, stepHours, tickMs>>

\* the speed select, changed
SelectSpeed ==
  /\ changesDependency
  /\ tickMs' \in SpeedOptions \ {tickMs}
  /\ UNCHANGED <<isPlaying, stepHours, rangeDays>>

NextTimer ==
  \/ RunEffect \/ IntervalFires
  \/ ClickPlayPause \/ SelectStep \/ SelectRange \/ SelectSpeed
  \/ StepButton \/ ResetOffset \/ DragSlider

SpecTimer == InitTimer /\ [][NextTimer]_vars

\* the closure the effect would set an interval with in this render
current == [step |-> stepHours, range |-> rangeDays, ms |-> tickMs]

\* a change of offsetHours that a manual control makes: one step back or
\* forward, Reset, or a slider value within its min and max
manualChange ==
  /\ pc' = "control"
  /\ \/ offsetHours' \in {offsetHours - stepHours, offsetHours + stepHours, 0}
     \/ -rangeDays * 24 <= offsetHours' /\ offsetHours' <= rangeDays * 24

\* C21: while isPlaying is false and the effect of the Pause click has run its
\* cleanup, no interval is set, so no tick changes offsetHours: every change
\* of offsetHours is one a manual control makes (step, Reset or slider)
C21_PausedOffsetOnlyManual ==
  [][(~isPlaying /\ ~effect.due) =>
        /\ timers = {}
        /\ (offsetHours' # offsetHours => manualChange)]_vars

\* paused after playing: the cleanup has just cleared the interval, and the
\* ticks have moved the offset
C21_Witness ==
  /\ pc = "effect" /\ ~isPlaying /\ ~effect.due /\ timers = {}
  /\ offsetHours = 3 * stepHours

\* C24: at most one interval is set at any time; once the effect of a Play
\* click or of a change of stepHours, tickMs or rangeDays has run, the only
\* interval is the one set with the current values (the earlier one is
\* cleared first), and every tick delivered then takes the latest offsetHours
\* and the current stepHours and rangeDays
C24_OneTimerCurrentValues ==
  /\ [](/\ Cardinality(timers) <= 1
        /\ (~effect.due => timers = IF isPlaying THEN {current} ELSE {}))
  /\ [][(~effect.due /\ pc' = "tick") =>
           offsetHours' = tick(offsetHours, stepHours, rangeDays)]_vars

\* playing with every dependency changed since the first Play: the timer has
\* been replaced three times and a tick of the latest one has arrived
C24_Witness ==
  /\ pc = "tick" /\ isPlaying /\ ~effect.due
  /\ timers = {[step |-> 24, range |-> 30, ms |-> 50]}
  /\ offsetHours = 6 + 24

(***************************************************************************)
(* The retrograde mark of a planet marker.                                 *)
(***************************************************************************)

\* x > y: false when either is NaN
Gt(x, y) == x.k # "nan" /\ y.k # "nan" /\ Rank(x) > Rank(y)

\* if (delta > 180) delta -= 360
foldDelta(delta) ==
  IF Gt(delta, Fin(Deg(180))) THEN Sub(delta, Fin(C360)) ELSE delta

\* the retro flag of one marker: prev and next are the elon of
\* Astronomy.Ecliptic(Astronomy.GeoVector(p.body, ., true)) 12 hours before
\* and after the date; an exception of either leaves the flag false
retrograde(p, prev, next) ==
  IF p.body /\ ~p.isNode /\ p.key # "Sun" /\ p.key # "Moon"
  THEN IF p.throws THEN FALSE
       ELSE IsNeg(foldDelta(norm360(Sub(next, prev))))
  ELSE FALSE

\* the points a marker is drawn for: the ten bodies and the two nodes
MarkerSamples ==
  {[key |-> BODIES[i].key, body |-> TRUE, isNode |-> FALSE, throws |-> t] :
     i \in 1 .. Len(BODIES), t \in BOOLEAN}
  \cup {[key |-> k, body |-> FALSE, isNode |-> TRUE, throws |-> FALSE] :
          k \in {"Rahu", "Ketu"}}

\* ecliptic longitudes of a body 12 hours before and after the date
RetroSamples ==
  {Fin(0), PosTiny, Fin(Deg(1)), Fin(Deg(2)), Fin(Deg(90)), Fin(Deg(179)),
   Fin(Deg(180)), Fin(Deg(181)), Fin(Deg(270)), Fin(Deg(359))}

InitRetro ==
  /\ Fresh /\ DefaultObserver /\ DefaultWheel
  /\ variant = "closed" /\ ay = Fin(0)
  /\ arg \in RetroSamples /\ arg2 \in RetroSamples
  /\ marker \in MarkerSamples
  /\ enabledAspects = DefaultAspects /\ aspectOrb = Fin(Deg(6))
  /\ pts = <<>> /\ offsetHours = 0 /\ isPlaying = FALSE
  /\ stepHours = 6 /\ rangeDays = 90
  /\ rules = [a |-> {}, b |-> {}]
  /\ TimerIdle

\* the retrograde check of one marker: prev is arg, next is arg2
MarkRetrograde ==
  /\ pc = "input"
  /\ pc' = "retro"
  /\ res' = [res EXCEPT !.retro = retrograde(marker, arg, arg2)]
  /\ UNCHANGED <<inputs, out, view>>

NextRetro == MarkRetrograde

SpecRetro == InitRetro /\ [][NextRetro]_vars

\* a planet other than the Sun and the Moon, and not a node
isPlanet(p) == ~p.isNode /\ p.key \notin {"Sun", "Moon"}

\* the change from prev to next in exact arithmetic, folded to the shortest
\* arc in (-180, 180], is negative
movesBackward(prev, next) ==
  (Rank(next) - Rank(prev)) % (3 * C360) > 3 * Deg(180)

\* C22: a body is marked retrograde exactly when it is a planet other than the
\* Sun and the Moon, not a node, and its ecliptic longitude 12 hours after the
\* date is behind the one 12 hours before, by the shortest arc in
\* (-180, 180]; a forward crossing of 0 (359 to 1) is not retrograde, and the
\* Sun, the Moon, Rahu and Ketu are never marked
C22_RetrogradeByShortestArc ==
  (pc = "retro" /\ ~marker.throws) =>
     res.retro = (isPlanet(marker) /\ movesBackward(arg, arg2))

\* C25: after resolveCollisions, two bodies that are neighbours in circular
\* longitude order (consecutive in ascending order, or the last and the first
\* across 0 / 360) and closer than minSepDeg are on different bump levels
C25_CloseNeighboursDiffer ==
  (pc = "markers" /\ Len(pts) > 1) =>
     /\ \A k \in 2 .. Len(pts) :
           lonAt(pts, k) - lonAt(pts, k - 1) < Deg(4) => bumpAt(k) # bumpAt(k - 1)
     /\ closeAcrossZero(pts, Deg(4)) => bumpAt(1) # bumpAt(Len(pts))

\* the label level of the point at place k of the sorted order
levelAt(k) == res.levels[sortedAt(pts, k)]

\* the way from the largest longitude on through 0 to the smallest, in units
gapAcrossZero(points) ==
  (lonAt(points, 1) + C360 - lonAt(points, Len(points))) % C360

\* the point at place k has a neighbour in circular order within the threshold
hasCloseNeighbour(points, k, threshold) ==
  \/ k > 1 /\ lonAt(points, k) - lonAt(points, k - 1) <= threshold
  \/ k < Len(points) /\ lonAt(points, k + 1) - lonAt(points, k) <= threshold
  \/ /\ Len(points) > 1 /\ k \in {1, Len(points)}
     /\ gapAcrossZero(points) <= threshold

\* C26: computeLabelLevels gives every point index exactly one level;
\* neighbours in circular order within thresholdDeg of each other, the last
\* and the first across 0 / 360 included, get different levels; a point with
\* no neighbour within the threshold gets level 0
C26_LabelLevels ==
  (pc = "labels" /\ Len(pts) > 0) =>
     /\ DOMAIN res.levels = DOMAIN pts
     /\ \A i \in DOMAIN pts : res.levels[i] \in 0 .. Len(pts) - 1
     /\ \A k \in 2 .. Len(pts) :
           lonAt(pts, k) - lonAt(pts, k - 1) <= Deg(3) => levelAt(k) # levelAt(k - 1)
     /\ (Len(pts) > 1 /\ gapAcrossZero(pts) <= Deg(3)) =>
           levelAt(1) # levelAt(Len(pts))
     /\ \A k \in 1 .. Len(pts) :
           ~hasCloseNeighbour(pts, k, Deg(3)) => levelAt(k) = 0

\* bodies at 1, 359 and 10 degrees: 359 and 1 are neighbours across 0 and
\* are on the levels 0 and 1, the body at 10 has no neighbour and is on level 0
C26_Witness ==
  /\ pc = "labels"
  /\ pts = <<[lon |-> Fin(Deg(1)), bump |-> 0], [lon |-> Fin(Deg(359)), bump |-> 0],
             [lon |-> Fin(Deg(10)), bump |-> 0]>>
  /\ ~hasCloseNeighbour(pts, 2, Deg(3))
  /\ res.levels = <<1, 0, 0>>

\* nakshatra index and pada of every table row
nakshatras(nLon) ==
  [i \in DOMAIN nLon |-> nakshatraOf(nLon[i])]

\* C27: the nakshatra and pada of every table row are computed from
\* norm360(tropical longitude - ayanamsha) whether the Sidereal toggle is on
\* or off: the toggle can change the plotted longitude, sign and degree, but
\* the nakshatra and pada are the same in both positions
C27_NakshatraIgnoresToggle ==
  pc = "wheel" =>
     LET other == Wheel(ephem, ay, ~useSidereal, showOuterPlanets, sth, tilt, lat, lon)
     IN /\ \A i \in DOMAIN view.points :
              view.nLon[i] = norm360(Sub(view.points[i].elon, ay))
        /\ nakshatras(view.nLon) = nakshatras(other.nLon)

\* the wheel has been rendered in tropical mode with a non-zero ayanamsha: the
\* Sun's sign is the tropical one, the other position of the toggle gives
\* another sign, and the nakshatra is taken from the sidereal longitude
C27_Witness ==
  /\ pc = "wheel" /\ ~useSidereal /\ ~view.thrown
  /\ LET other == Wheel(ephem, ay, TRUE, showOuterPlanets, sth, tilt, lat, lon)
     IN /\ ~other.thrown
        /\ placements(view.zLon)[1].sign # placements(other.zLon)[1].sign
  /\ view.nLon[1] # view.points[1].lon
  /\ ~nakshatras(view.nLon)[1].thrown

(***************************************************************************)
(* The Wheel render of both variants, with its ascendant                   *)
(***************************************************************************)

\* One render of the Wheel with whole-sign houses: the points and table rows
\* as in the other variant, ascLon = ascendantLongitude(date, observer) and
\* the whole-sign cusps.  ascLon is used as it is in both positions of the
\* Sidereal toggle.
WheelScan(ephem0, ayanamshaDeg, useSid, showOuter, tilt0, sky0, latitudeDeg) ==
  LET planets == usePlanetLongitudes(ephem0)
      filtered == SelectSeq(planets, LAMBDA p : showOuter \/ ~p.optional)
      points ==
        [i \in 1 .. Len(filtered) |->
           [key |-> filtered[i].key, elon |-> filtered[i].elon,
            lon |-> IF useSid
                    THEN siderealLongitude(filtered[i].elon, ayanamshaDeg)
                    ELSE filtered[i].elon]]
      ascLon == ascendantLongitude(tilt0, sky0, latitudeDeg)
      sidLon == [i \in 1 .. Len(points) |-> sidLonOf(points[i], ayanamshaDeg)]
  IN [points |-> points,
      ascTropical |-> ascLon.asc,
      ascToUse |-> ascLon.asc,
      houseCusps |-> wholeSignCusps(ascLon.asc),
      zLon |-> [i \in 1 .. Len(points) |-> points[i].lon],
      nLon |-> sidLon,
      thrown |-> \/ ascLon.thrown
                 \/ \E i \in 1 .. Len(points) :
                      \/ zodiacBreakdown(points[i].lon).thrown
                      \/ nakshatraOf(sidLon[i]).thrown]

\* the render of the variant at hand
WheelOf(v, useSid) ==
  IF v = "closed"
  THEN Wheel(ephem, ay, useSid, showOuterPlanets, sth, tilt, lat, lon)
  ELSE WheelScan(ephem, ay, useSid, showOuterPlanets, tilt, sky, lat)

\* ayanamshas tried with both variants: none, the Lahiri preset, a full turn
FrameAyanamshas == {Fin(0), Fin(7230), Fin(Deg(360)), PosTiny}

InitFrames ==
  /\ Fresh /\ DefaultPage /\ DefaultObserver
  /\ variant \in {"closed", "scan"} /\ arg = Fin(0)
  /\ ay \in FrameAyanamshas
  /\ useSidereal \in BOOLEAN /\ showOuterPlanets \in BOOLEAN
  /\ ephem \in EphemSamples

\* aspect lines that pair a point with every point, itself included
testedAgainst_All(points, i) == points

\* points.slice(i + 1)
testedAgainst(points, i) == SubSeq(points, i + 1, Len(points))

\* the hasAspect(a.lon, b.lon) tests of the aspect lines, in the order they
\* are made: points.map((a, i) => points.slice(i + 1).map((b, j) => ...))
aspectTests(points) ==
  [i \in DOMAIN points |->
     [j \in DOMAIN testedAgainst(points, i) |->
        <<points[i].key, testedAgainst(points, i)[j].key>>]]

\* the objects the layout of the markers and labels works on
markerObjects(points) ==
  [i \in DOMAIN points |-> [key |-> points[i].key, lon |-> points[i].lon, bump |-> 0]]

\* Wheel of part_001: points, ascendant, aspect lines, markers, table
RenderClosed ==
  /\ pc = "input" /\ variant = "closed"
  /\ pc' = "frames"
  /\ view' = WheelOf("closed", useSidereal)
  /\ out' = computeAscendantDeg(sth, tilt, lat, lon)
  /\ res' = [res EXCEPT
               !.pairs = aspectTests(view'.points),
               !.enhanced = layoutPoints(markerObjects(view'.points), Fin(Deg(4))).enhanced]
  /\ UNCHANGED inputs

\* Wheel of VedicZodiacWheel.jsx: points, ascendant, label levels, aspect
\* lines, table
RenderScan ==
  /\ pc = "input" /\ variant = "scan"
  /\ pc' = "frames"
  /\ view' = WheelOf("scan", useSidereal)
  /\ out' = ascendantLongitude(tilt, sky, lat)
  /\ res' = [res EXCEPT
               !.pairs = aspectTests(view'.points),
               !.levels = computeLabelLevels(markerObjects(view'.points), Fin(Deg(3)))]
  /\ UNCHANGED inputs

NextFrames == RenderClosed \/ RenderScan

SpecFrames == InitFrames /\ [][NextFrames]_vars

\* norm360(body longitude - ascendant longitude) of every plotted body
fromAscendant(w) ==
  [i \in DOMAIN w.points |-> norm360(Sub(w.points[i].lon, w.ascToUse))]

\* C28: in every variant that draws an ascendant, the angle from the
\* ascendant to each plotted body, norm360(body longitude - ascendant
\* longitude), is the same with the Sidereal toggle on as with it off
C28_AnglesFromAscendantKeep ==
  pc = "frames" =>
     LET other == WheelOf(variant, ~useSidereal)
     IN (~view.thrown /\ ~other.thrown) =>
           fromAscendant(view) = fromAscendant(other)

\* the bodies always plotted, and those plotted with showOuterPlanets on
InnerBodies ==
  {"Sun", "Moon", "Mercury", "Venus", "Mars", "Jupiter", "Saturn", "Rahu", "Ketu"}

OuterBodies == {"Uranus", "Neptune", "Pluto"}

\* the keys of a list of points or drawn objects
keysOf(list) == {list[i].key : i \in DOMAIN list}

\* how many of the tests made pair the bodies a and b, in either order
timesTested(tests, a, b) ==
  Cardinality({<<i, j>> \in (DOMAIN tests) \X (1 .. Len(tests)) :
                 j \in DOMAIN tests[i] /\ tests[i][j] \in {<<a, b>>, <<b, a>>}})

\* C29: with showOuterPlanets off the plotted bodies are exactly Sun, Moon,
\* Mercury, Venus, Mars, Jupiter, Saturn, Rahu and Ketu (9), with it on
\* Uranus, Neptune and Pluto are added (12); the table rows, the aspect tests
\* and the bump levels range over exactly the plotted bodies, and every
\* unordered pair of them is tested for an aspect exactly once
C29_PlottedSet ==
  (pc = "frames" /\ ~view.thrown) =>
     LET plotted == IF showOuterPlanets THEN InnerBodies \cup OuterBodies
                    ELSE InnerBodies
         levels == IF variant = "closed"
                   THEN [i \in DOMAIN res.enhanced |-> res.enhanced[i].bump]
                   ELSE res.levels
     IN /\ keysOf(view.points) = plotted
        /\ Len(view.points) = Cardinality(plotted)
        /\ Len(view.points) = IF showOuterPlanets THEN 12 ELSE 9
        /\ DOMAIN view.zLon = DOMAIN view.points
        /\ DOMAIN view.nLon = DOMAIN view.points
        /\ DOMAIN levels = DOMAIN view.points
        /\ variant = "closed" => keysOf(res.enhanced) = plotted
        /\ \A a, b \in plotted :
              timesTested(res.pairs, a, b) = IF a = b THEN 0 ELSE 1
        /\ \A i \in DOMAIN res.pairs : \A j \in DOMAIN res.pairs[i] :
              res.pairs[i][j][1] \in plotted /\ res.pairs[i][j][2] \in plotted

\* the wheel has been drawn with the outer planets: twelve bodies, Pluto
\* among them, and 66 aspect tests
C29_Witness ==
  /\ pc = "frames" /\ ~view.thrown /\ showOuterPlanets
  /\ "Pluto" \in keysOf(view.points)
  /\ Len(view.points) = 12
  /\ timesTested(res.pairs, "Sun", "Pluto") = 1
  /\ Len(res.pairs[1]) = 11

====
